---- MODULE Spec2Model ----
\* School journal (school_app): weekly Schedule templates, dated Lessons
\* materialized from them, and the per-student Attendance rows of a Lesson.
\* The relational store is the state; every view (request handler) is one action.
EXTENDS Integers, Sequences, FiniteSets, TLC

\* ------------------------------------------------------------------ bounds
\* Number of Schedule rows ever inserted (primary keys are never reused).
MaxSchedules == 2
\* Number of Lesson rows ever inserted.
MaxLessons == 2

\* ------------------------------------------------------------ fixed tables
\* Rows of Group, Subject, Teacher, Student and User that no modelled view writes.
Groups == {"A", "B"}
Subjects == {"Math", "Physics"}
Teachers == {"T1", "T2"}
Students == {"S1", "S2", "S3"}
Users == {"admin", "root", "uT1", "uT2", "uS1", "uP1"}

\* User.is_superuser ("root" is a superuser who was given the parent role)
IsSuperuser(u) == u \in {"admin", "root"}

\* Accounts created without a role; roles and profiles are given to them later.
NewUsers == {"n1", "n2"}

\* The kinds of profile row: Student, Teacher, Parent.
ProfileKinds == {"student", "teacher", "parent"}

\* Rows of Role, one per kind, named so that the signal handlers recognise them.
Roles == ProfileKinds

\* Absent related object (no Teacher row for the user, a missing form field).
None == "None"

\* NULL in a nullable TimeField (times of day are >= 0).
NoTime == -1

\* NULL in Lesson.schedule, and the primary key of a row not yet inserted
\* (primary keys start at 1).
NoId == 0

\* request.user.teacher (Teacher.user is one-to-one)
TeacherOf(u) == IF u = "uT1" THEN "T1" ELSE IF u = "uT2" THEN "T2" ELSE None

HasTeacher(u) == TeacherOf(u) # None

\* Teacher.main_group
MainGroup(t) == IF t = "T1" THEN "A" ELSE "B"

\* Teacher.additional_groups
AdditionalGroups(t) == IF t = "T2" THEN {"A"} ELSE {}

\* Teacher.subjects
TeacherSubjects(t) == IF t = "T1" THEN {"Math"} ELSE {"Math", "Physics"}

\* teacher.main_group == group or group in teacher.additional_groups
WorksWithGroup(t, g) == MainGroup(t) = g \/ g \in AdditionalGroups(t)

\* Student.group at start-up
InitialGroup(s) == IF s = "S3" THEN "B" ELSE "A"

\* ------------------------------------------------------- times as POSTed text
\* A time arrives as text "H:MM" or "HH:MM". A text is the sequence of its
\* characters: digit d is d, and ':' is Colon (':' sorts after every digit).
Colon == 10

t0900 == <<0, 9, Colon, 0, 0>>
t0930 == <<0, 9, Colon, 3, 0>>
t1000 == <<1, 0, Colon, 0, 0>>
t1030 == <<1, 0, Colon, 3, 0>>
t1100 == <<1, 1, Colon, 0, 0>>
\* The same time as t0930, typed without the leading zero.
t930 == <<9, Colon, 3, 0>>
\* An empty form field.
Empty == <<>>

\* Python's str comparison a < b: the first differing character decides; a
\* proper prefix is smaller.
RECURSIVE StrLess(_, _)
StrLess(a, b) ==
    IF b = <<>> THEN FALSE
    ELSE IF a = <<>> THEN TRUE
    ELSE IF Head(a) # Head(b) THEN Head(a) < Head(b)
    ELSE StrLess(Tail(a), Tail(b))

\* Python's a >= b on str
StrGeq(a, b) == ~StrLess(a, b)

\* int() of a run of digits
RECURSIVE DigitsValue(_)
DigitsValue(s) ==
    IF s = <<>> THEN 0
    ELSE 10 * DigitsValue(SubSeq(s, 1, Len(s) - 1)) + s[Len(s)]

ColonPos(s) == CHOOSE i \in 1..Len(s) : s[i] = Colon

\* TimeField.to_python on "H:MM" / "HH:MM": the time of day, in minutes.
ParseTime(s) ==
    60 * DigitsValue(SubSeq(s, 1, ColonPos(s) - 1))
        + DigitsValue(SubSeq(s, ColonPos(s) + 1, Len(s)))

\* A stored time as the admin form shows it: "HH:MM".
FormatTime(m) ==
    <<(m \div 60) \div 10, (m \div 60) % 10, Colon, (m % 60) \div 10, (m % 60) % 10>>

\* start_time if start_time else None (a nullable TimeField)
ParseOptTime(s) == IF s = Empty THEN NoTime ELSE ParseTime(s)

\* ------------------------------------------------------------------- dates
\* A date is its proleptic ordinal (day 1 is a Monday); date.weekday() is 0
\* for Monday .. 6 for Sunday.
Weekday(d) == (d - 1) % 7

\* ------------------------------------------------------------------- state
VARIABLES
    schedules,        \* rows of Schedule
    nextScheduleId,   \* next primary key of Schedule
    lessons,          \* rows of Lesson
    nextLessonId,     \* next primary key of Lesson
    attendance,       \* rows of Attendance, keyed by (lesson, student)
    studentGroup,     \* Student.group of every student
    userRoles,        \* User.role of every new account
    profiles,         \* which of Student, Teacher, Parent rows a new account has
    req,              \* the request handled last
    result,           \* its outcome
    pc,               \* concurrent add_schedule: position of each handler
    cand              \* concurrent add_schedule: the POST data of each handler

vars == <<schedules, nextScheduleId, lessons, nextLessonId, attendance,
          studentGroup, userRoles, profiles, req, result, pc, cand>>

store == <<schedules, nextScheduleId, lessons, nextLessonId, attendance, studentGroup,
           userRoles, profiles>>

\* Handlers of the concurrent add_schedule requests.
Procs == {"p1", "p2"}

NoReq == [op |-> "none"]

Init ==
    /\ schedules = {}
    /\ nextScheduleId = 1
    /\ lessons = {}
    /\ nextLessonId = 1
    /\ attendance = {}
    /\ studentGroup = [s \in Students |-> InitialGroup(s)]
    /\ userRoles = [u \in NewUsers |-> {}]
    /\ profiles = [u \in NewUsers |-> {}]
    /\ req = NoReq
    /\ result = "none"
    /\ pc = [p \in Procs |-> "idle"]
    /\ cand = [p \in Procs |-> NoReq]

\* ------------------------------------------------------------ add_schedule
\* Mutant of Overlaps: the excludes written with __lt / __gt, so that touching
\* intervals count as overlapping.
OverlapsClosed(s, st, et) == ~(s.end_time < st) /\ ~(s.start_time > et)

\* .exclude(end_time__lte=start_time).exclude(start_time__gte=end_time):
\* row s survives both excludes.
Overlaps(s, st, et) == ~(s.end_time <= st) /\ ~(s.start_time >= et)

\* Schedule.objects.filter(group=group, weekday=weekday, is_active=True) + excludes
GroupConflicts(S, g, wd, st, et) ==
    {s \in S : s.group = g /\ s.weekday = wd /\ s.is_active /\ Overlaps(s, st, et)}

\* Mutant of TeacherConflicts: the weekday filter is left out of the query.
TeacherConflictsAnyWeekday(S, t, wd, st, et) ==
    {s \in S : s.teacher = t /\ s.is_active /\ Overlaps(s, st, et)}

\* Schedule.objects.filter(teacher=teacher, weekday=weekday, is_active=True) + excludes
TeacherConflicts(S, t, wd, st, et) ==
    {s \in S : s.teacher = t /\ s.weekday = wd /\ s.is_active /\ Overlaps(s, st, et)}

\* unique_together = ('group', 'weekday', 'start_time') on Schedule,
\* for a row with primary key id (a new row has a fresh one).
ScheduleUniqueViolated(S, id, g, wd, st) ==
    \E s \in S : s.id # id /\ s.group = g /\ s.weekday = wd /\ s.start_time = st

\* Schedule.clean() as run by Schedule.save() on the values of the instance;
\* startGeqEnd is the instance's own start_time >= end_time (on str for a
\* POSTed value, on time for a value cleaned by a form).
ScheduleCleanFails(t, g, subj, startGeqEnd) ==
    \/ startGeqEnd
    \/ subj \notin TeacherSubjects(t)
    \/ ~WorksWithGroup(t, g)

\* The checks of the view, in the order of the code, up to the group-time query.
AddSchedulePreCheck(caller, g, subj, t, wd, st, et) ==
    IF ~(IsSuperuser(caller) \/ HasTeacher(caller)) THEN "NoPermission"
    ELSE IF g = None \/ subj = None \/ t = None \/ st = Empty \/ et = Empty
        THEN "MissingFields"
    ELSE IF HasTeacher(caller) /\ ~IsSuperuser(caller) /\ TeacherOf(caller) # t
        THEN "NotOwnSchedule"
    ELSE IF StrGeq(st, et) THEN "InvalidTimeRange"
    ELSE IF subj \notin TeacherSubjects(t) THEN "TeacherNotQualified"
    ELSE IF ~WorksWithGroup(t, g) THEN "TeacherNotAssignedToGroup"
    ELSE "ok"

\* Mutant of AddScheduleGroupCheck: only a row with the same start_time counts
\* (what the uniqueness constraint alone would catch).
AddScheduleGroupCheckStartOnly(S, g, wd, st, et) ==
    IF \E s \in S : s.group = g /\ s.weekday = wd /\ s.is_active
                      /\ s.start_time = ParseTime(st)
        THEN "GroupTimeConflict" ELSE "ok"

\* The group-time query of the view against the rows S.
AddScheduleGroupCheck(S, g, wd, st, et) ==
    IF GroupConflicts(S, g, wd, ParseTime(st), ParseTime(et)) # {}
        THEN "GroupTimeConflict" ELSE "ok"

\* The teacher-time query of the view against the rows S.
AddScheduleTeacherCheck(S, t, wd, st, et) ==
    IF TeacherConflicts(S, t, wd, ParseTime(st), ParseTime(et)) # {}
        THEN "TeacherTimeConflict" ELSE "ok"

\* Schedule.objects.create(...): save() runs clean(), then the INSERT meets the
\* uniqueness constraint. ValidationError and any other exception are caught by
\* the view and reported as such.
AddScheduleCreate(S, g, subj, t, wd, st, et) ==
    IF ScheduleCleanFails(t, g, subj, StrGeq(st, et)) THEN "ValidationError"
    ELSE IF ScheduleUniqueViolated(S, NoId, g, wd, ParseTime(st)) THEN "UnexpectedError"
    ELSE "Created"

\* Mutant of AddScheduleOutcome: the two conflict queries are left out.
AddScheduleOutcomeNoQueries(S, caller, g, subj, t, wd, st, et) ==
    LET pre == AddSchedulePreCheck(caller, g, subj, t, wd, st, et) IN
    IF pre # "ok" THEN pre
    ELSE AddScheduleCreate(S, g, subj, t, wd, st, et)

\* The outcome of one add_schedule POST handled alone against the rows S.
AddScheduleOutcome(S, caller, g, subj, t, wd, st, et) ==
    LET pre == AddSchedulePreCheck(caller, g, subj, t, wd, st, et) IN
    IF pre # "ok" THEN pre
    ELSE IF AddScheduleGroupCheck(S, g, wd, st, et) # "ok" THEN "GroupTimeConflict"
    ELSE IF AddScheduleTeacherCheck(S, t, wd, st, et) # "ok" THEN "TeacherTimeConflict"
    ELSE AddScheduleCreate(S, g, subj, t, wd, st, et)

\* The row that Schedule.objects.create inserts.
NewSchedule(id, g, subj, t, wd, st, et, room) ==
    [id |-> id, group |-> g, subject |-> subj, teacher |-> t, weekday |-> wd,
     start_time |-> ParseTime(st), end_time |-> ParseTime(et),
     classroom |-> room, is_active |-> TRUE]

AddScheduleReq(caller, g, subj, t, wd, st, et, room) ==
    [op |-> "add_schedule", caller |-> caller, group |-> g, subject |-> subj,
     teacher |-> t, weekday |-> wd, start_time |-> st, end_time |-> et,
     classroom |-> room]

\* views.add_schedule, POST
AddSchedule(caller, g, subj, t, wd, st, et, room) ==
    LET out == AddScheduleOutcome(schedules, caller, g, subj, t, wd, st, et) IN
    /\ out = "Created" => nextScheduleId <= MaxSchedules
    /\ req' = AddScheduleReq(caller, g, subj, t, wd, st, et, room)
    /\ result' = out
    /\ IF out = "Created"
       THEN /\ schedules' = schedules \cup
                    {NewSchedule(nextScheduleId, g, subj, t, wd, st, et, room)}
            /\ nextScheduleId' = nextScheduleId + 1
       ELSE UNCHANGED <<schedules, nextScheduleId>>
    /\ UNCHANGED <<lessons, nextLessonId, attendance, studentGroup, userRoles, profiles, pc, cand>>

\* ---------------------------------------------------------- delete_schedule
\* Lesson.schedule is on_delete=CASCADE: the Lessons that go with Schedule id.
LessonsOfSchedule(L, id) == {l \in L : l.schedule = id}

\* Attendance.lesson is on_delete=CASCADE: the rows that go with the Lessons D.
AttendanceOfLessons(A, D) == {a \in A : \E l \in D : a.lesson = l.id}

\* Mutant of DeleteScheduleOutcome: every teacher may delete.
DeleteScheduleOutcomeAnyTeacher(S, caller, id) ==
    IF ~(\E s \in S : s.id = id) THEN "NotFound"
    ELSE IF ~(IsSuperuser(caller) \/ HasTeacher(caller)) THEN "NoPermission"
    ELSE "Deleted"

\* The outcome of one delete_schedule POST.
DeleteScheduleOutcome(S, caller, id) ==
    IF ~(\E s \in S : s.id = id) THEN "NotFound"
    ELSE LET s == CHOOSE x \in S : x.id = id IN
         IF ~(IsSuperuser(caller) \/ (HasTeacher(caller) /\ TeacherOf(caller) = s.teacher))
         THEN "NoPermission"
         ELSE "Deleted"

\* views.delete_schedule, POST
DeleteSchedule(caller, id) ==
    LET out == DeleteScheduleOutcome(schedules, caller, id)
        gone == LessonsOfSchedule(lessons, id) IN
    /\ req' = [op |-> "delete_schedule", caller |-> caller, schedule |-> id]
    /\ result' = out
    /\ IF out = "Deleted"
       THEN /\ schedules' = {s \in schedules : s.id # id}
            /\ lessons' = lessons \ gone
            /\ attendance' = attendance \ AttendanceOfLessons(attendance, gone)
       ELSE UNCHANGED <<schedules, lessons, attendance>>
    /\ UNCHANGED <<nextScheduleId, nextLessonId, studentGroup, userRoles, profiles, pc, cand>>

\* ------------------------------------------- ScheduleAdmin (admin change form)
\* The model form: its TimeFields parse the texts, then Schedule.clean() and the
\* uniqueness validation run on the cleaned values. No overlap query is made.
AdminChangeScheduleOutcome(S, caller, id, g, subj, t, wd, st, et) ==
    IF ~IsSuperuser(caller) THEN "NoPermission"
    ELSE IF ~(\E s \in S : s.id = id) THEN "NotFound"
    ELSE IF ScheduleCleanFails(t, g, subj, ParseTime(st) >= ParseTime(et)) THEN "FormInvalid"
    ELSE IF ScheduleUniqueViolated(S, id, g, wd, ParseTime(st)) THEN "FormInvalid"
    ELSE "Saved"

\* admin.ScheduleAdmin, change view, POST
AdminChangeSchedule(caller, id, g, subj, t, wd, st, et, room, active) ==
    LET out == AdminChangeScheduleOutcome(schedules, caller, id, g, subj, t, wd, st, et) IN
    /\ req' = [op |-> "admin_change_schedule", caller |-> caller, schedule |-> id]
    /\ result' = out
    /\ IF out = "Saved"
       THEN schedules' = {s \in schedules : s.id # id} \cup
                {[NewSchedule(id, g, subj, t, wd, st, et, room) EXCEPT !.is_active = active]}
       ELSE UNCHANGED schedules
    /\ UNCHANGED <<nextScheduleId, lessons, nextLessonId, attendance, studentGroup, userRoles, profiles, pc, cand>>

\* ------------------------------------------- concurrent add_schedule requests
\* The view runs outside any transaction: its two queries and its INSERT are
\* separate statements, and statements of other requests may come in between.
\* A handler receives its POST and runs the checks that read no Schedule row.
ConcReceive(p, caller, g, subj, t, wd, st, et, room) ==
    LET pre == AddSchedulePreCheck(caller, g, subj, t, wd, st, et) IN
    /\ pc[p] = "idle"
    /\ cand' = [cand EXCEPT ![p] = [AddScheduleReq(caller, g, subj, t, wd, st, et, room)
                                     EXCEPT !.op = IF pre = "ok" THEN "pending" ELSE pre]]
    /\ pc' = [pc EXCEPT ![p] = IF pre = "ok" THEN "group_query" ELSE "done"]
    /\ UNCHANGED <<store, req, result>>

\* The group-time query (views.py 849-865).
ConcGroupQuery(p) ==
    LET c == cand[p]
        out == AddScheduleGroupCheck(schedules, c.group, c.weekday, c.start_time, c.end_time) IN
    /\ pc[p] = "group_query"
    /\ cand' = [cand EXCEPT ![p].op = IF out = "ok" THEN "pending" ELSE out]
    /\ pc' = [pc EXCEPT ![p] = IF out = "ok" THEN "teacher_query" ELSE "done"]
    /\ UNCHANGED <<store, req, result>>

\* The teacher-time query (views.py 867-883).
ConcTeacherQuery(p) ==
    LET c == cand[p]
        out == AddScheduleTeacherCheck(schedules, c.teacher, c.weekday, c.start_time, c.end_time) IN
    /\ pc[p] = "teacher_query"
    /\ cand' = [cand EXCEPT ![p].op = IF out = "ok" THEN "pending" ELSE out]
    /\ pc' = [pc EXCEPT ![p] = IF out = "ok" THEN "create" ELSE "done"]
    /\ UNCHANGED <<store, req, result>>

\* Schedule.objects.create (views.py 886-895).
ConcCreate(p) ==
    LET c == cand[p]
        out == AddScheduleCreate(schedules, c.group, c.subject, c.teacher, c.weekday,
                                 c.start_time, c.end_time) IN
    /\ pc[p] = "create"
    /\ out = "Created" => nextScheduleId <= MaxSchedules
    /\ cand' = [cand EXCEPT ![p].op = out]
    /\ pc' = [pc EXCEPT ![p] = "done"]
    /\ IF out = "Created"
       THEN /\ schedules' = schedules \cup
                    {NewSchedule(nextScheduleId, c.group, c.subject, c.teacher, c.weekday,
                                 c.start_time, c.end_time, c.classroom)}
            /\ nextScheduleId' = nextScheduleId + 1
       ELSE UNCHANGED <<schedules, nextScheduleId>>
    /\ UNCHANGED <<lessons, nextLessonId, attendance, studentGroup, userRoles, profiles, req, result>>

\* ------------------------------------------------------------------ lessons
\* NULL in Attendance.grade (grades are 2..5).
NoGrade == 0

\* An empty "date" form field (ordinals start at 1).
NoDate == 0

\* Mutant of StudentsOf: the group filter is left out.
StudentsOfAnyGroup(g) == Students

\* Student.objects.filter(group=g)
StudentsOf(g) == {s \in Students : studentGroup[s] = g}

\* Mutant of FanOut: the students are taken by the group they started in.
FanOutInitialGroup(lessonId, g) ==
    {[lesson |-> lessonId, student |-> s, attended |-> FALSE, late |-> FALSE,
      grade |-> NoGrade] : s \in {x \in Students : InitialGroup(x) = g}}

\* The Attendance rows built for the students of the Lesson's group.
FanOut(lessonId, g) ==
    {[lesson |-> lessonId, student |-> s, attended |-> FALSE, late |-> FALSE,
      grade |-> NoGrade] : s \in StudentsOf(g)}

\* Lesson.save(), first part: a Lesson with a Schedule and is_from_schedule takes
\* the Schedule's current values, the classroom only if it has none.
LessonCopyFromSchedule(S, l) ==
    IF l.schedule # NoId /\ l.is_from_schedule /\ (\E s \in S : s.id = l.schedule)
    THEN LET s == CHOOSE x \in S : x.id = l.schedule IN
         [l EXCEPT !.subject = s.subject, !.group = s.group, !.teacher = s.teacher,
                   !.start_time = s.start_time, !.end_time = s.end_time,
                   !.classroom = IF l.classroom = "" THEN s.classroom ELSE l.classroom]
    ELSE l

\* Lesson.clean() on time values.
LessonCleanFails(l) ==
    l.start_time # NoTime /\ l.end_time # NoTime /\ l.start_time >= l.end_time

\* Lesson.clean() on the texts of a manual Lesson (compared as str).
ManualLessonCleanFails(st, et) == st # Empty /\ et # Empty /\ StrGeq(st, et)

\* Mutant of LessonUniqueViolated: the table has no uniqueness constraint.
LessonUniqueNever(L, l) == FALSE

\* unique_together = ('subject', 'date', 'group', 'start_time') on Lesson; rows
\* with a NULL start_time never collide.
LessonUniqueViolated(L, l) ==
    /\ l.start_time # NoTime
    /\ \E x \in L : /\ x.id # l.id /\ x.subject = l.subject /\ x.date = l.date
                    /\ x.group = l.group /\ x.start_time = l.start_time

\* Mutant of LessonFromSchedule: the classroom typed into the form is ignored.
LessonFromScheduleOwnRoom(id, s, date, room, notes) ==
    [id |-> id, schedule |-> s.id, subject |-> s.subject, date |-> date,
     group |-> s.group, teacher |-> s.teacher, classroom |-> s.classroom,
     start_time |-> s.start_time, end_time |-> s.end_time,
     is_from_schedule |-> TRUE, notes |-> notes]

\* The Lesson built by the schedule path of either view, before save().
LessonFromSchedule(id, s, date, room, notes) ==
    [id |-> id, schedule |-> s.id, subject |-> s.subject, date |-> date,
     group |-> s.group, teacher |-> s.teacher,
     classroom |-> IF room # "" THEN room ELSE s.classroom,
     start_time |-> s.start_time, end_time |-> s.end_time,
     is_from_schedule |-> TRUE, notes |-> notes]

\* The Lesson built by the manual path of add_lesson.
LessonManual(id, t, subj, g, date, st, et, room, notes) ==
    [id |-> id, schedule |-> NoId, subject |-> subj, date |-> date, group |-> g,
     teacher |-> t, classroom |-> room,
     start_time |-> ParseOptTime(st), end_time |-> ParseOptTime(et),
     is_from_schedule |-> FALSE, notes |-> notes]

\* Lesson.objects.filter(schedule=schedule, date=lesson_date).first()
ExistingScheduleLesson(L, sid, date) == \E l \in L : l.schedule = sid /\ l.date = date

\* Lesson.objects.filter(subject=subject, group=group, date=lesson_date).first()
ExistingManualLesson(L, subj, g, date) ==
    \E l \in L : l.subject = subj /\ l.group = g /\ l.date = date

\* Lesson.objects.create on the schedule path: save() copies, cleans, INSERTs; an
\* exception is caught by the view and reported as a generic failure.
CreateScheduleLessonOutcome(S, L, l) ==
    IF LessonCleanFails(LessonCopyFromSchedule(S, l)) THEN "UnexpectedError"
    ELSE IF LessonUniqueViolated(L, LessonCopyFromSchedule(S, l)) THEN "UnexpectedError"
    ELSE "Created"

\* Mutant of AddLessonFromScheduleOutcome: the weekday comparison is left out.
AddLessonFromScheduleOutcomeNoWeekday(S, L, caller, sid, date, room, notes) ==
    IF ~HasTeacher(caller) THEN "NoPermission"
    ELSE IF date = NoDate THEN "MissingDate"
    ELSE IF sid = NoId THEN "MissingSchedule"
    ELSE IF ~(\E s \in S : s.id = sid) THEN "UnexpectedError"
    ELSE LET s == CHOOSE x \in S : x.id = sid IN
         IF ~WorksWithGroup(TeacherOf(caller), s.group) THEN "NoGroupPermission"
         ELSE IF ExistingScheduleLesson(L, sid, date) THEN "DuplicateLesson"
         ELSE CreateScheduleLessonOutcome(S, L, LessonFromSchedule(NoId, s, date, room, notes))

\* The outcome of one add_lesson POST with lesson_type = 'from_schedule'.
AddLessonFromScheduleOutcome(S, L, caller, sid, date, room, notes) ==
    IF ~HasTeacher(caller) THEN "NoPermission"
    ELSE IF date = NoDate THEN "MissingDate"
    ELSE IF sid = NoId THEN "MissingSchedule"
    ELSE IF ~(\E s \in S : s.id = sid) THEN "UnexpectedError"
    ELSE LET s == CHOOSE x \in S : x.id = sid IN
         IF ~WorksWithGroup(TeacherOf(caller), s.group) THEN "NoGroupPermission"
         ELSE IF Weekday(date) # s.weekday THEN "WeekdayMismatch"
         ELSE IF ExistingScheduleLesson(L, sid, date) THEN "DuplicateLesson"
         ELSE CreateScheduleLessonOutcome(S, L, LessonFromSchedule(NoId, s, date, room, notes))

\* Mutant of AddLessonManualOutcome: the teacher's groups are not checked.
AddLessonManualOutcomeAnyGroup(L, caller, subj, g, date, st, et) ==
    IF ~HasTeacher(caller) THEN "NoPermission"
    ELSE IF date = NoDate THEN "MissingDate"
    ELSE IF subj = None \/ g = None THEN "MissingFields"
    ELSE IF ExistingManualLesson(L, subj, g, date) THEN "DuplicateLesson"
    ELSE IF ManualLessonCleanFails(st, et) THEN "UnexpectedError"
    ELSE IF LessonUniqueViolated(L, LessonManual(NoId, TeacherOf(caller), subj, g, date,
                                                 st, et, "", "")) THEN "UnexpectedError"
    ELSE "Created"

\* The outcome of one add_lesson POST with any other lesson_type (manual).
AddLessonManualOutcome(L, caller, subj, g, date, st, et) ==
    IF ~HasTeacher(caller) THEN "NoPermission"
    ELSE IF date = NoDate THEN "MissingDate"
    ELSE IF subj = None \/ g = None THEN "MissingFields"
    ELSE IF ~WorksWithGroup(TeacherOf(caller), g) THEN "NoGroupPermission"
    ELSE IF ExistingManualLesson(L, subj, g, date) THEN "DuplicateLesson"
    ELSE IF ManualLessonCleanFails(st, et) THEN "UnexpectedError"
    ELSE IF LessonUniqueViolated(L, LessonManual(NoId, TeacherOf(caller), subj, g, date,
                                                 st, et, "", "")) THEN "UnexpectedError"
    ELSE "Created"

\* Mutant of CreateLessonFromScheduleOutcome: the query for an existing Lesson of
\* the (schedule, date) pair is left out.
CreateLessonFromScheduleOutcomeNoQuery(S, L, caller, sid, date, room, notes) ==
    IF ~(\E s \in S : s.id = sid) THEN "NotFound"
    ELSE LET s == CHOOSE x \in S : x.id = sid IN
         IF ~IsSuperuser(caller) /\ TeacherOf(caller) # s.teacher THEN "NoPermission"
         ELSE IF date = NoDate THEN "MissingDate"
         ELSE IF Weekday(date) # s.weekday THEN "WeekdayMismatch"
         ELSE CreateScheduleLessonOutcome(S, L, LessonFromSchedule(NoId, s, date, room, notes))

\* The outcome of one create_lesson_from_schedule POST.
CreateLessonFromScheduleOutcome(S, L, caller, sid, date, room, notes) ==
    IF ~(\E s \in S : s.id = sid) THEN "NotFound"
    ELSE LET s == CHOOSE x \in S : x.id = sid IN
         IF ~IsSuperuser(caller) /\ TeacherOf(caller) # s.teacher THEN "NoPermission"
         ELSE IF date = NoDate THEN "MissingDate"
         ELSE IF Weekday(date) # s.weekday THEN "WeekdayMismatch"
         ELSE IF ExistingScheduleLesson(L, sid, date) THEN "DuplicateLesson"
         ELSE CreateScheduleLessonOutcome(S, L, LessonFromSchedule(NoId, s, date, room, notes))

\* The Lesson row and its Attendance fan-out are written (both views end so).
StoreLesson(l) ==
    /\ lessons' = lessons \cup {l}
    /\ nextLessonId' = nextLessonId + 1
    /\ attendance' = attendance \cup FanOut(l.id, l.group)

\* views.add_lesson, POST, lesson_type = 'from_schedule'
AddLessonFromSchedule(caller, sid, date, room, notes) ==
    LET out == AddLessonFromScheduleOutcome(schedules, lessons, caller, sid, date, room, notes) IN
    /\ out = "Created" => nextLessonId <= MaxLessons
    /\ req' = [op |-> "add_lesson", lesson_type |-> "from_schedule", caller |-> caller,
               schedule |-> sid, date |-> date, classroom |-> room, notes |-> notes]
    /\ result' = out
    /\ IF out = "Created"
       THEN LET s == CHOOSE x \in schedules : x.id = sid IN
            StoreLesson(LessonCopyFromSchedule(schedules,
                            LessonFromSchedule(nextLessonId, s, date, room, notes)))
       ELSE UNCHANGED <<lessons, nextLessonId, attendance>>
    /\ UNCHANGED <<schedules, nextScheduleId, studentGroup, userRoles, profiles, pc, cand>>

\* views.add_lesson, POST, manual
AddLessonManual(caller, subj, g, date, st, et, room, notes) ==
    LET out == AddLessonManualOutcome(lessons, caller, subj, g, date, st, et) IN
    /\ out = "Created" => nextLessonId <= MaxLessons
    /\ req' = [op |-> "add_lesson", lesson_type |-> "manual", caller |-> caller,
               subject |-> subj, group |-> g, date |-> date, start_time |-> st,
               end_time |-> et, classroom |-> room, notes |-> notes]
    /\ result' = out
    /\ IF out = "Created"
       THEN StoreLesson(LessonManual(nextLessonId, TeacherOf(caller), subj, g, date,
                                     st, et, room, notes))
       ELSE UNCHANGED <<lessons, nextLessonId, attendance>>
    /\ UNCHANGED <<schedules, nextScheduleId, studentGroup, userRoles, profiles, pc, cand>>

\* views.create_lesson_from_schedule, POST
CreateLessonFromSchedule(caller, sid, date, room, notes) ==
    LET out == CreateLessonFromScheduleOutcome(schedules, lessons, caller, sid, date,
                                               room, notes) IN
    /\ out = "Created" => nextLessonId <= MaxLessons
    /\ req' = [op |-> "create_lesson_from_schedule", caller |-> caller,
               schedule |-> sid, date |-> date, classroom |-> room, notes |-> notes]
    /\ result' = out
    /\ IF out = "Created"
       THEN LET s == CHOOSE x \in schedules : x.id = sid IN
            StoreLesson(LessonCopyFromSchedule(schedules,
                            LessonFromSchedule(nextLessonId, s, date, room, notes)))
       ELSE UNCHANGED <<lessons, nextLessonId, attendance>>
    /\ UNCHANGED <<schedules, nextScheduleId, studentGroup, userRoles, profiles, pc, cand>>

\* ----------------------------------------------- add_lesson, concurrent handlers
\* The view runs without a transaction: its queries, Lesson.objects.create and
\* bulk_create are separate statements, and statements of two handlers interleave.
\* Handler p receives a POST with lesson_type = 'from_schedule'.
ConcAddLessonFromSchedule(p, caller, sid, date) ==
    /\ pc[p] = "idle"
    /\ cand' = [cand EXCEPT ![p] =
                   [op |-> "pending", lesson_type |-> "from_schedule", caller |-> caller,
                    schedule |-> sid, date |-> date, classroom |-> "", notes |-> "",
                    lesson |-> NoId]]
    /\ pc' = [pc EXCEPT ![p] = "lesson_query"]
    /\ UNCHANGED <<store, req, result>>

\* Handler p receives a manual POST.
ConcAddLessonManual(p, caller, subj, g, date, st) ==
    /\ pc[p] = "idle"
    /\ cand' = [cand EXCEPT ![p] =
                   [op |-> "pending", lesson_type |-> "manual", caller |-> caller,
                    subject |-> subj, group |-> g, date |-> date, start_time |-> st,
                    end_time |-> Empty, classroom |-> "", notes |-> "", lesson |-> NoId]]
    /\ pc' = [pc EXCEPT ![p] = "lesson_query"]
    /\ UNCHANGED <<store, req, result>>

\* The outcome of the view for the POST c as far as the rows S and L decide it.
ConcLessonOutcome(S, L, c) ==
    IF c.lesson_type = "from_schedule"
    THEN AddLessonFromScheduleOutcome(S, L, c.caller, c.schedule, c.date, c.classroom, c.notes)
    ELSE AddLessonManualOutcome(L, c.caller, c.subject, c.group, c.date,
                                c.start_time, c.end_time)

\* The checks of the view up to and including the query for an existing Lesson
\* let the POST c through to Lesson.objects.create.
ConcLessonChecksPass(S, L, c) ==
    /\ ConcLessonOutcome(S, L, c) \in {"Created", "UnexpectedError"}
    /\ c.lesson_type = "from_schedule" => \E s \in S : s.id = c.schedule

\* The checks and the duplicate query (views.py 471-519, 540-564).
ConcLessonQuery(p) ==
    LET c == cand[p] IN
    /\ pc[p] = "lesson_query"
    /\ IF ConcLessonChecksPass(schedules, lessons, c)
       THEN /\ pc' = [pc EXCEPT ![p] = "lesson_create"]
            /\ UNCHANGED cand
       ELSE /\ pc' = [pc EXCEPT ![p] = "done"]
            /\ cand' = [cand EXCEPT ![p].op = ConcLessonOutcome(schedules, lessons, c)]
    /\ UNCHANGED <<store, req, result>>

\* The Lesson that handler p builds for its POST c, with primary key id.
ConcLessonRow(S, c, id) ==
    IF c.lesson_type = "from_schedule"
    THEN LessonCopyFromSchedule(S,
             LessonFromSchedule(id, CHOOSE s \in S : s.id = c.schedule, c.date,
                                c.classroom, c.notes))
    ELSE LessonManual(id, TeacherOf(c.caller), c.subject, c.group, c.date,
                      c.start_time, c.end_time, c.classroom, c.notes)

\* Lesson.objects.create (views.py 521-533, 566-578): clean(), then the INSERT
\* meets the uniqueness constraint; an exception ends the view in its except.
ConcLessonCreate(p) ==
    LET c == cand[p]
        fails == \/ LessonCleanFails(ConcLessonRow(schedules, c, NoId))
                 \/ c.lesson_type = "manual" /\ ManualLessonCleanFails(c.start_time, c.end_time)
                 \/ LessonUniqueViolated(lessons, ConcLessonRow(schedules, c, NoId)) IN
    /\ pc[p] = "lesson_create"
    /\ ~fails => nextLessonId <= MaxLessons
    /\ IF fails
       THEN /\ cand' = [cand EXCEPT ![p].op = "UnexpectedError"]
            /\ pc' = [pc EXCEPT ![p] = "done"]
            /\ UNCHANGED <<lessons, nextLessonId>>
       ELSE /\ lessons' = lessons \cup {ConcLessonRow(schedules, c, nextLessonId)}
            /\ nextLessonId' = nextLessonId + 1
            /\ cand' = [cand EXCEPT ![p].lesson = nextLessonId]
            /\ pc' = [pc EXCEPT ![p] = "lesson_fanout"]
    /\ UNCHANGED <<schedules, nextScheduleId, attendance, studentGroup, userRoles, profiles, req, result>>

\* Student.objects.filter(group=lesson.group) and bulk_create (views.py 584-598).
ConcLessonFanOut(p) ==
    LET c == cand[p]
        l == CHOOSE x \in lessons : x.id = c.lesson IN
    /\ pc[p] = "lesson_fanout"
    /\ attendance' = attendance \cup FanOut(l.id, l.group)
    /\ cand' = [cand EXCEPT ![p].op = "Created"]
    /\ pc' = [pc EXCEPT ![p] = "done"]
    /\ UNCHANGED <<schedules, nextScheduleId, lessons, nextLessonId, studentGroup, userRoles, profiles, req, result>>

\* ---------------------------------------------- LessonAdmin (admin change form)
\* The form is submitted with the stored values: the model form validates them
\* (clean(), uniqueness), then Lesson.save() copies from the Schedule, cleans
\* again and UPDATEs; an exception there fails the request.
AdminSaveLessonOutcome(S, L, caller, id) ==
    IF ~IsSuperuser(caller) THEN "NoPermission"
    ELSE IF ~(\E l \in L : l.id = id) THEN "NotFound"
    ELSE LET l == CHOOSE x \in L : x.id = id IN
         IF LessonCleanFails(l) \/ LessonUniqueViolated(L, l) THEN "FormInvalid"
         ELSE IF LessonCleanFails(LessonCopyFromSchedule(S, l)) THEN "ServerError"
         ELSE IF LessonUniqueViolated(L, LessonCopyFromSchedule(S, l)) THEN "ServerError"
         ELSE "Saved"

\* admin.LessonAdmin, change view, POST
AdminSaveLesson(caller, id) ==
    LET out == AdminSaveLessonOutcome(schedules, lessons, caller, id) IN
    /\ req' = [op |-> "admin_save_lesson", caller |-> caller, lesson |-> id]
    /\ result' = out
    /\ IF out = "Saved"
       THEN LET l == CHOOSE x \in lessons : x.id = id IN
            lessons' = (lessons \ {l}) \cup {LessonCopyFromSchedule(schedules, l)}
       ELSE UNCHANGED lessons
    /\ UNCHANGED <<schedules, nextScheduleId, nextLessonId, attendance, studentGroup, userRoles, profiles, pc, cand>>

\* ------------------------------------------------------------ edit_attendance
\* Student.user (only S1 has a login in this table)
StudentUser(s) == IF s = "S1" THEN "uS1" ELSE None

\* hasattr(request.user, 'parent'); the Parent row of "root" is the one the role
\* signal creates, without children.
HasParent(u) == u \in {"uP1", "root"}

\* request.user.parent.children
ParentChildren(u) == IF u = "uP1" THEN {"S1"} ELSE {}

\* Grade texts as typed into the form: a text is the sequence of its characters.
g1 == <<1>>
g2 == <<2>>
g5 == <<5>>
g6 == <<6>>
\* A text int() does not accept.
gColon == <<Colon>>

IsDigits(s) == \A i \in 1..Len(s) : s[i] \in 0..9

\* "Обработка оценки": an empty text, a text int() rejects and a number outside
\* 2..5 all become None.
ParseGrade(s) ==
    IF s = Empty THEN NoGrade
    ELSE IF ~IsDigits(s) THEN NoGrade
    ELSE IF DigitsValue(s) < 2 \/ DigitsValue(s) > 5 THEN NoGrade
    ELSE DigitsValue(s)

\* The three form fields of one lesson: the check boxes attended_<id> and
\* late_<id> (present in the POST or not) and the text grade_<id>.
AbsentFields == [attended |-> FALSE, late |-> FALSE, grade |-> Empty]

\* A POST is a function from the lesson ids whose keys it carries to their
\* fields; a lesson without keys reads as unchecked boxes and an empty grade.
PostFields(post, id) == IF id \in DOMAIN post THEN post[id] ELSE AbsentFields

\* Mutant of AttendanceCleanFails: clean() accepts every row.
AttendanceCleanNever(a) == FALSE

\* Attendance.clean()
AttendanceCleanFails(a) ==
    \/ a.grade # NoGrade /\ (a.grade < 2 \/ a.grade > 5)
    \/ ~a.attended /\ a.late

\* has_access of edit_attendance: the teacher branch, elif the parent branch,
\* elif superuser or the student themself.
EditAttendanceAccess(caller, s) ==
    IF HasTeacher(caller) THEN WorksWithGroup(TeacherOf(caller), studentGroup[s])
    ELSE IF HasParent(caller) THEN s \in ParentChildren(caller)
    ELSE IsSuperuser(caller) \/ caller = StudentUser(s)

\* Lesson.objects.filter(group=student.group), as ids
LessonIdsOfGroup(L, g) == {l.id : l \in {x \in L : x.group = g}}

\* The values computed from the form fields of one lesson: late is dropped
\* when attended is not set, the grade is parsed.
NormalizedRow(id, s, f) ==
    [lesson |-> id, student |-> s, attended |-> f.attended,
     late |-> IF f.attended THEN f.late ELSE FALSE, grade |-> ParseGrade(f.grade)]

\* Mutant of RowsAfterEdit: the record is created even when one exists.
RowsAfterEditAppend(att, id, s, post) ==
    {a \in att : a.lesson = id /\ a.student = s}
        \cup {NormalizedRow(id, s, PostFields(post, id))}

\* The rows of (lesson id, student s) after the loop body for that lesson: an
\* existing record is overwritten if a value differs, a missing one is created;
\* save() runs clean(), and a ValidationError leaves the rows as they were.
RowsAfterEdit(att, id, s, post) ==
    LET mine == {a \in att : a.lesson = id /\ a.student = s}
        new  == NormalizedRow(id, s, PostFields(post, id))
    IN  IF AttendanceCleanFails(new) THEN mine
        ELSE IF mine # {} THEN (mine \ {CHOOSE a \in mine : TRUE}) \cup {new}
        ELSE {new}

\* Mutant of EditAttendanceRows: only the lessons whose keys the POST carries
\* are processed.
EditAttendanceRowsPostedOnly(att, L, s, post) ==
    LET ids == LessonIdsOfGroup(L, studentGroup[s]) \cap DOMAIN post IN
    {a \in att : ~(a.student = s /\ a.lesson \in ids)}
        \cup UNION {RowsAfterEdit(att, id, s, post) : id \in ids}

\* The Attendance table after one edit_attendance POST for student s.
EditAttendanceRows(att, L, s, post) ==
    LET ids == LessonIdsOfGroup(L, studentGroup[s]) IN
    {a \in att : ~(a.student = s /\ a.lesson \in ids)}
        \cup UNION {RowsAfterEdit(att, id, s, post) : id \in ids}

\* The outcome of one edit_attendance POST (changes_made decides the message).
EditAttendanceOutcome(att, L, caller, s, post) ==
    IF ~EditAttendanceAccess(caller, s) THEN "NoPermission"
    ELSE IF EditAttendanceRows(att, L, s, post) # att THEN "Updated"
    ELSE "NoChanges"

\* views.edit_attendance, POST
EditAttendance(caller, s, post) ==
    LET out == EditAttendanceOutcome(attendance, lessons, caller, s, post) IN
    /\ req' = [op |-> "edit_attendance", caller |-> caller, student |-> s, post |-> post]
    /\ result' = out
    /\ attendance' = IF out = "NoPermission" THEN attendance
                     ELSE EditAttendanceRows(attendance, lessons, s, post)
    /\ UNCHANGED <<schedules, nextScheduleId, lessons, nextLessonId, studentGroup, userRoles, profiles, pc, cand>>

\* ------------------------------------------ create_missing_attendance_records
\* Mutant of MissingAttendance: the existing rows are not excluded.
MissingAttendanceNoExclude(att, L) ==
    UNION {FanOut(l.id, l.group) : l \in L}

\* For every Lesson, default rows for the students of its group that have no
\* row for it.
MissingAttendance(att, L) ==
    UNION {{a \in FanOut(l.id, l.group) :
               ~(\E x \in att : x.lesson = l.id /\ x.student = a.student)} : l \in L}

\* views.create_missing_attendance_records, POST
CreateMissingAttendanceRecords(caller) ==
    /\ req' = [op |-> "create_missing_attendance", caller |-> caller]
    /\ result' = IF IsSuperuser(caller) THEN "Done" ELSE "NoPermission"
    /\ attendance' = IF IsSuperuser(caller)
                     THEN attendance \cup MissingAttendance(attendance, lessons)
                     ELSE attendance
    /\ UNCHANGED <<schedules, nextScheduleId, lessons, nextLessonId, studentGroup, userRoles, profiles, pc, cand>>

\* -------------------------------------------- StudentAdmin, AttendanceAdmin
\* admin.StudentAdmin, change view, POST: the student is moved to group g.
AdminChangeStudentGroup(caller, s, g) ==
    /\ IsSuperuser(caller)
    /\ req' = [op |-> "admin_change_student", caller |-> caller, student |-> s, group |-> g]
    /\ result' = "Saved"
    /\ studentGroup' = [studentGroup EXCEPT ![s] = g]
    /\ UNCHANGED <<schedules, nextScheduleId, lessons, nextLessonId, attendance, userRoles, profiles, pc, cand>>

\* The model form of the admin change view runs Attendance.clean(); a
\* ValidationError makes the form invalid and nothing is saved.
AdminChangeAttendanceOutcome(att, id, s, attended, late, grade) ==
    IF ~(\E a \in att : a.lesson = id /\ a.student = s) THEN "NotFound"
    ELSE IF AttendanceCleanFails([lesson |-> id, student |-> s, attended |-> attended,
                                  late |-> late, grade |-> grade]) THEN "FormInvalid"
    ELSE "Saved"

\* admin.AttendanceAdmin, change view, POST
AdminChangeAttendance(caller, id, s, attended, late, grade) ==
    LET out == AdminChangeAttendanceOutcome(attendance, id, s, attended, late, grade) IN
    /\ IsSuperuser(caller)
    /\ req' = [op |-> "admin_change_attendance", caller |-> caller, lesson |-> id,
               student |-> s, attended |-> attended, late |-> late, grade |-> grade]
    /\ result' = out
    /\ attendance' =
          IF out = "Saved"
          THEN {a \in attendance : ~(a.lesson = id /\ a.student = s)}
                  \cup {[lesson |-> id, student |-> s, attended |-> attended,
                         late |-> late, grade |-> grade]}
          ELSE attendance
    /\ UNCHANGED <<schedules, nextScheduleId, lessons, nextLessonId, studentGroup, userRoles, profiles, pc, cand>>

\* --------------------------------------------------------- roles and profiles
\* Mutant of ProfileCleanFails: clean() accepts every profile.
ProfileCleanNever(held, kind) == FALSE

\* Student.clean(), Teacher.clean(), Parent.clean(): the user of a profile of
\* one kind must not have a profile of another kind; held is the set of kinds
\* hasattr(user, ...) reports.
ProfileCleanFails(held, kind) == held \ {kind} # {}

\* create_role_based_records for one added role r: P is the set of profile rows of
\* the user, stale the kinds whose deleted row is still cached on the instance.
\* Nothing is created if hasattr reports the kind; create() runs save() and
\* clean(), and the ValidationError is caught by the handler.
AfterRoleAdded(P, stale, r) ==
    IF r \notin ProfileKinds THEN P
    ELSE IF r \in P \cup stale THEN P
    ELSE IF ProfileCleanFails(P \cup stale, r) THEN P
    ELSE P \cup {r}

\* create_role_based_records, the loop over pk_set in the order it iterates.
RECURSIVE AfterRolesAdded(_, _, _)
AfterRolesAdded(P, stale, order) ==
    IF order = <<>> THEN P
    ELSE AfterRolesAdded(AfterRoleAdded(P, stale, Head(order)), stale, Tail(order))

\* remove_role_based_records: the profile of every removed role is deleted.
AfterRolesRemoved(P, removed) == P \ removed

\* The orders in which a set can be iterated.
Orders(S) ==
    {f \in [1..Cardinality(S) -> S] : \A i, j \in 1..Cardinality(S) : f[i] = f[j] => i = j}

\* admin.CustomUserAdmin, change view, POST with the roles R checked: the form
\* calls user.role.set(R), which removes the roles no longer checked (post_remove)
\* and then adds the new ones (post_add). hasattr() in post_remove caches the
\* profile on the user instance, and the cached row outlives its deletion.
AdminChangeUserRoles(u, R) ==
    LET removed == userRoles[u] \ R
        added   == R \ userRoles[u]
        P1      == AfterRolesRemoved(profiles[u], removed)
        stale   == profiles[u] \cap removed
    IN
    /\ req' = [op |-> "admin_change_user", user |-> u, roles |-> R]
    /\ result' = "Saved"
    /\ userRoles' = [userRoles EXCEPT ![u] = R]
    /\ \E order \in Orders(added) :
          profiles' = [profiles EXCEPT ![u] = AfterRolesAdded(P1, stale, order)]
    /\ UNCHANGED <<schedules, nextScheduleId, lessons, nextLessonId, attendance,
                   studentGroup, pc, cand>>

\* The users the add form of a profile of the kind offers: those without a
\* profile of the kind, narrowed to those holding the role if there are any.
AvailableUsers(kind) ==
    LET available == {v \in NewUsers : kind \notin profiles[v]}
        withRole  == {v \in available : kind \in userRoles[v]}
    IN  IF withRole # {} THEN withRole ELSE available

\* The outcome of the add form of StudentAdmin, TeacherAdmin or ParentAdmin: the
\* user must be among the choices and the model's clean() must accept it.
AdminAddProfileOutcome(kind, u) ==
    IF u \notin AvailableUsers(kind) THEN "FormInvalid"
    ELSE IF ProfileCleanFails(profiles[u], kind) THEN "FormInvalid"
    ELSE "Saved"

\* admin.StudentAdmin / TeacherAdmin / ParentAdmin, add view, POST; save_model
\* adds the role of the kind, whose signal finds the profile present.
AdminAddProfile(kind, u) ==
    LET out == AdminAddProfileOutcome(kind, u) IN
    /\ req' = [op |-> "admin_add_profile", user |-> u, kind |-> kind]
    /\ result' = out
    /\ IF out = "Saved"
       THEN /\ profiles' = [profiles EXCEPT
                               ![u] = AfterRolesAdded(profiles[u] \cup {kind}, {}, <<kind>>)]
            /\ userRoles' = [userRoles EXCEPT ![u] = userRoles[u] \cup {kind}]
       ELSE UNCHANGED <<profiles, userRoles>>
    /\ UNCHANGED <<schedules, nextScheduleId, lessons, nextLessonId, attendance,
                   studentGroup, pc, cand>>

\* The outcome of the change form of the profile of the kind that user u has,
\* with user v selected: v must have no profile of the kind (or be u), and
\* clean() must accept v.
AdminChangeProfileUserOutcome(kind, u, v) ==
    IF kind \notin profiles[u] THEN "NotFound"
    ELSE IF v # u /\ kind \in profiles[v] THEN "FormInvalid"
    ELSE IF ProfileCleanFails(profiles[v], kind) THEN "FormInvalid"
    ELSE "Saved"

\* admin.StudentAdmin / TeacherAdmin / ParentAdmin, change view, POST: the
\* profile is handed to user v, and save_model adds the role of the kind to v.
AdminChangeProfileUser(kind, u, v) ==
    LET out == AdminChangeProfileUserOutcome(kind, u, v) IN
    /\ req' = [op |-> "admin_change_profile", user |-> u, kind |-> kind, to |-> v]
    /\ result' = out
    /\ IF out = "Saved"
       THEN /\ profiles' = [w \in NewUsers |->
                               IF w = v THEN profiles[w] \cup {kind}
                               ELSE IF w = u THEN profiles[w] \ {kind}
                               ELSE profiles[w]]
            /\ userRoles' = [userRoles EXCEPT ![v] = userRoles[v] \cup {kind}]
       ELSE UNCHANGED <<profiles, userRoles>>
    /\ UNCHANGED <<schedules, nextScheduleId, lessons, nextLessonId, attendance,
                   studentGroup, pc, cand>>

\* ------------------------------------------------------------ specifications
ScheduleIds == 1..MaxSchedules

\* Time ranges as typed into the form: <<start_time, end_time>>.
SchedTimes == {<<t0900, t1000>>, <<t0930, t1030>>, <<t1000, t1100>>}

\* The admin change form shows the stored row; the superuser flips "is_active"
\* and submits it.
AdminToggleActive(id) ==
    \E s \in schedules :
       /\ s.id = id
       /\ AdminChangeSchedule("admin", id, s.group, s.subject, s.teacher, s.weekday,
                              FormatTime(s.start_time), FormatTime(s.end_time),
                              s.classroom, ~s.is_active)

\* Candidates as <<group, teacher, weekday>>: three on Monday that share a group
\* or a teacher pairwise or neither, and one on Tuesday.
SchedSlots == {<<"A", "T1", 0>>, <<"A", "T2", 0>>, <<"B", "T2", 0>>, <<"A", "T2", 1>>}

\* Schedule management: add_schedule and the admin change form.
NextSchedule ==
    \/ \E sl \in SchedSlots, tm \in SchedTimes :
          AddSchedule("admin", sl[1], "Math", sl[2], sl[3], tm[1], tm[2], "")
    \/ \E id \in ScheduleIds : AdminToggleActive(id)

Spec == Init /\ [][NextSchedule]_vars

\* add_schedule and delete_schedule only, one request at a time; the texts
\* include a time typed without its leading zero.
SchedTimesTyped == SchedTimes \cup {<<t1000, t930>>}

NextAddDelete ==
    \/ \E g \in Groups, t \in Teachers, tm \in SchedTimesTyped :
          AddSchedule("admin", g, "Math", t, 0, tm[1], tm[2], "")
    \/ \E id \in ScheduleIds : DeleteSchedule("admin", id)

SpecAddDelete == Init /\ [][NextAddDelete]_vars

\* Two add_schedule requests handled concurrently, statement by statement.
NextConcurrent ==
    \/ \E p \in Procs, g \in Groups, t \in Teachers, wd \in {0, 1}, tm \in SchedTimes :
          ConcReceive(p, "admin", g, "Math", t, wd, tm[1], tm[2], "")
    \/ \E p \in Procs : ConcGroupQuery(p)
    \/ \E p \in Procs : ConcTeacherQuery(p)
    \/ \E p \in Procs : ConcCreate(p)

SpecConcurrent == Init /\ [][NextConcurrent]_vars

LessonIds == 1..MaxLessons

\* Day 1 and day 8 are Mondays, day 2 is a Tuesday.
Dates == {1, 2, 8}

\* Materialization: Schedules are created and deleted, Lessons are created
\* through both views, from a Schedule or manually.
NextMaterialize ==
    \/ \E t \in Teachers :
          AddSchedule("admin", MainGroup(t), "Math", t, 0, t0900, t1000, "101")
    \/ \E id \in ScheduleIds : DeleteSchedule("admin", id)
    \/ \E caller \in {"uT1", "uT2"}, sid \in ScheduleIds, date \in Dates :
          AddLessonFromSchedule(caller, sid, date, "", "")
    \/ \E caller \in {"admin", "uT2"}, sid \in ScheduleIds, date \in Dates :
          CreateLessonFromSchedule(caller, sid, date, "", "")
    \/ \E g \in Groups : AddLessonManual("uT2", "Math", g, 1, t0900, Empty, "", "")

SpecMaterialize == Init /\ [][NextMaterialize]_vars

\* Snapshot: one Schedule is created and edited through the admin form, Lessons
\* are made from it and saved again through the admin form.
NextSnapshot ==
    \/ AddSchedule("admin", "A", "Math", "T2", 0, t0900, t1000, "101")
    \/ \E id \in ScheduleIds, subj \in Subjects, t \in Teachers,
          tm \in {<<t0900, t1000>>, <<t1000, t1100>>} :
          AdminChangeSchedule("admin", id, "A", subj, t, 0, tm[1], tm[2], "101", TRUE)
    \/ \E sid \in ScheduleIds, room \in {"", "305"} :
          CreateLessonFromSchedule("admin", sid, 1, room, "")
    \/ \E id \in LessonIds : AdminSaveLesson("admin", id)

SpecSnapshot == Init /\ [][NextSnapshot]_vars

\* Copying: a Schedule is created, edited through the admin form, and Lessons
\* are made from it through both views, with and without a classroom typed in.
NextCopy ==
    \/ AddSchedule("admin", "A", "Math", "T2", 0, t0900, t1000, "101")
    \/ \E id \in ScheduleIds :
          AdminChangeSchedule("admin", id, "A", "Math", "T1", 0, t1000, t1100, "101", TRUE)
    \/ \E sid \in ScheduleIds, room \in {"", "305"} :
          CreateLessonFromSchedule("admin", sid, 1, room, "")
    \/ \E sid \in ScheduleIds, room \in {"", "305"} :
          AddLessonFromSchedule("uT2", sid, 8, room, "")

SpecCopy == Init /\ [][NextCopy]_vars

\* Manual lessons only.
NextManual ==
    \E caller \in {"uT1", "uT2"}, g \in Groups, date \in {1, 2}, st \in {Empty, t0900, t1000} :
        AddLessonManual(caller, "Math", g, date, st, Empty, "", "")

SpecManual == Init /\ [][NextManual]_vars

\* A POST that carries the keys of lesson id only.
PostOnly(id, f) == [x \in {id} |-> f]

\* Field values typed for one lesson.
EditChoices ==
    {[attended |-> TRUE, late |-> FALSE, grade |-> g5],
     [attended |-> FALSE, late |-> TRUE, grade |-> Empty],
     [attended |-> TRUE, late |-> TRUE, grade |-> g6]}

\* The same with grades at and beyond the limits and a text that is no number.
EditChoicesWide ==
    EditChoices \cup {[attended |-> TRUE, late |-> FALSE, grade |-> g1],
                      [attended |-> TRUE, late |-> FALSE, grade |-> g2],
                      [attended |-> FALSE, late |-> FALSE, grade |-> gColon]}

\* Attendance: Lessons are created by both views, rows are edited through
\* edit_attendance, S3 is moved between the groups and the missing rows are
\* created.
NextAttendance ==
    \/ AddSchedule("admin", "A", "Math", "T2", 0, t0900, t1000, "101")
    \/ \E sid \in ScheduleIds, date \in {1, 8} :
          CreateLessonFromSchedule("admin", sid, date, "", "")
    \/ AddLessonManual("uT2", "Math", "B", 1, Empty, Empty, "", "")
    \/ \E s \in {"S1", "S3"}, id \in LessonIds, f \in EditChoices :
          EditAttendance("uT2", s, PostOnly(id, f))
    \/ \E g \in Groups : AdminChangeStudentGroup("admin", "S3", g)
    \/ \E caller \in {"admin", "uT2"} : CreateMissingAttendanceRecords(caller)

SpecAttendance == Init /\ [][NextAttendance]_vars

\* Every write path of Attendance rows: the fan-out of a new Lesson,
\* edit_attendance, the admin form and create_missing_attendance_records.
NextAttendanceWrites ==
    \/ \E g \in Groups, date \in {1, 2} :
          AddLessonManual("uT2", "Math", g, date, Empty, Empty, "", "")
    \/ \E s \in {"S1", "S3"}, id \in LessonIds, f \in EditChoicesWide :
          EditAttendance("uT2", s, PostOnly(id, f))
    \/ \E id \in LessonIds, att \in BOOLEAN, grade \in {NoGrade, 1, 2} :
          AdminChangeAttendance("admin", id, "S1", att, ~att, grade)
    \/ CreateMissingAttendanceRecords("admin")

SpecAttendanceWrites == Init /\ [][NextAttendanceWrites]_vars

\* Two add_lesson requests handled concurrently, statement by statement, while
\* a Schedule is created.
NextConcurrentLessons ==
    \/ AddSchedule("admin", "A", "Math", "T2", 0, t0900, t1000, "101")
    \/ \E p \in Procs, sid \in ScheduleIds : ConcAddLessonFromSchedule(p, "uT2", sid, 1)
    \/ \E p \in Procs, st \in {Empty, t0900} :
          ConcAddLessonManual(p, "uT2", "Math", "A", 1, st)
    \/ \E p \in Procs : ConcLessonQuery(p)
    \/ \E p \in Procs : ConcLessonCreate(p)
    \/ \E p \in Procs : ConcLessonFanOut(p)

SpecConcurrentLessons == Init /\ [][NextConcurrentLessons]_vars

\* Lesson creation: one Schedule, Lessons made from it through both views and
\* manual Lessons of the same subject and group, with and without a start_time.
NextLessonCreation ==
    \/ AddSchedule("admin", "A", "Math", "T2", 0, t0900, t1000, "101")
    \/ \E sid \in ScheduleIds, date \in {1, 8} :
          CreateLessonFromSchedule("admin", sid, date, "", "")
    \/ \E sid \in ScheduleIds, date \in {1, 8} :
          AddLessonFromSchedule("uT2", sid, date, "", "")
    \/ \E date \in {1, 8}, st \in {Empty, t0900} :
          AddLessonManual("uT2", "Math", "A", date, st, Empty, "", "")

SpecLessonCreation == Init /\ [][NextLessonCreation]_vars

\* Time ranges as typed, among them an inverted one, an inverted one typed
\* without the leading zero, and an empty one.
CheckTimes ==
    {<<t0900, t1000>>, <<t0930, t1030>>, <<t1000, t0900>>, <<t1000, t930>>, <<t0900, t0900>>}

\* add_schedule with candidates that fail one or several of its checks.
NextChecks ==
    \E g \in Groups, subj \in Subjects, t \in Teachers, tm \in CheckTimes :
        AddSchedule("admin", g, subj, t, 0, tm[1], tm[2], "")

SpecChecks == Init /\ [][NextChecks]_vars

\* Manual lessons with every field of the form filled in or left empty, by
\* teachers and by a user without a Teacher profile.
NextManualFields ==
    \E caller \in {"uT1", "uT2", "admin"}, subj \in {"Math", None},
       g \in Groups \cup {None}, tm \in {<<Empty, Empty>>, <<t0900, t1000>>},
       room \in {"", "305"} :
        AddLessonManual(caller, subj, g, 1, tm[1], tm[2], room, "homework")

SpecManualFields == Init /\ [][NextManualFields]_vars

\* add_schedule and delete_schedule by a superuser, by the two teachers, by a
\* student and by a parent.
NextPermissions ==
    \/ \E caller \in {"admin", "uT1", "uT2", "uS1", "uP1"}, g \in Groups,
          t \in {"T1", "T2"}, tm \in {<<t0900, t1000>>, <<t1000, t1100>>} :
          AddSchedule(caller, g, "Math", t, 0, tm[1], tm[2], "")
    \/ \E caller \in {"admin", "uT1", "uT2", "uS1", "uP1"}, id \in ScheduleIds :
          DeleteSchedule(caller, id)

SpecPermissions == Init /\ [][NextPermissions]_vars

\* edit_attendance by every kind of caller, on manual Lessons of both groups.
NextAccess ==
    \/ \E g \in Groups : AddLessonManual("uT2", "Math", g, 1, Empty, Empty, "", "")
    \/ \E caller \in Users, s \in {"S1", "S3"}, id \in LessonIds,
          f \in {[attended |-> TRUE, late |-> FALSE, grade |-> g5],
                 [attended |-> FALSE, late |-> FALSE, grade |-> Empty]} :
          EditAttendance(caller, s, PostOnly(id, f))

SpecAccess == Init /\ [][NextAccess]_vars

\* Roles are checked and unchecked on the user form, and profiles are added
\* and handed over on the profile forms.
NextProfiles ==
    \/ \E u \in NewUsers, R \in SUBSET Roles : AdminChangeUserRoles(u, R)
    \/ \E kind \in ProfileKinds, u \in NewUsers : AdminAddProfile(kind, u)
    \/ \E kind \in ProfileKinds, u, v \in NewUsers : AdminChangeProfileUser(kind, u, v)

SpecProfiles == Init /\ [][NextProfiles]_vars

\* ------------------------------------------------------------------ claims
\* Outcomes of add_schedule that come before the group-time query.
BeforeGroupCheck ==
    {"NoPermission", "MissingFields", "NotOwnSchedule", "InvalidTimeRange",
     "TeacherNotQualified", "TeacherNotAssignedToGroup"}

\* C1: a candidate that passes the time-range, qualification and group-assignment
\* checks is rejected with a group time conflict if and only if some active
\* Schedule of the same group and weekday has an interval [s,e) with
\* s < candidate.end_time and candidate.start_time < e.
C1_GroupConflictIffOverlap ==
    [][(req'.op = "add_schedule" /\ result' \notin BeforeGroupCheck) =>
        (result' = "GroupTimeConflict" <=>
            \E s \in schedules :
                /\ s.is_active /\ s.group = req'.group /\ s.weekday = req'.weekday
                /\ s.start_time < ParseTime(req'.end_time)
                /\ ParseTime(req'.start_time) < s.end_time)]_vars

\* C1 witness: [09:00,10:00) and the adjacent [10:00,11:00) are both stored for one
\* group and weekday, and [09:30,10:30) has just been rejected for that group and
\* weekday with a group time conflict.
C1_Witness ==
    /\ req.op = "add_schedule" /\ result = "GroupTimeConflict"
    /\ req.start_time = t0930 /\ req.end_time = t1030
    /\ \E a, b \in schedules :
          /\ a.group = req.group /\ b.group = req.group
          /\ a.weekday = req.weekday /\ b.weekday = req.weekday
          /\ a.is_active /\ b.is_active
          /\ a.start_time = 540 /\ a.end_time = 600
          /\ b.start_time = 600 /\ b.end_time = 660

\* C2: a candidate that passes the first four checks is rejected with a teacher
\* time conflict if and only if some active Schedule of the same teacher and
\* weekday, of whatever group, overlaps it under the half-open test.
C2_TeacherConflictIffOverlap ==
    [][(req'.op = "add_schedule"
            /\ result' \notin (BeforeGroupCheck \cup {"GroupTimeConflict"})) =>
        (result' = "TeacherTimeConflict" <=>
            \E s \in schedules :
                /\ s.is_active /\ s.teacher = req'.teacher /\ s.weekday = req'.weekday
                /\ s.start_time < ParseTime(req'.end_time)
                /\ ParseTime(req'.start_time) < s.end_time)]_vars

\* C2 witness: a candidate was rejected with a teacher time conflict although the
\* only overlapping row of its teacher belongs to another group, while an
\* inactive row of the teacher exists as well.
C2_Witness ==
    /\ req.op = "add_schedule" /\ result = "TeacherTimeConflict"
    /\ \E s \in schedules :
          /\ s.is_active /\ s.teacher = req.teacher /\ s.weekday = req.weekday
          /\ s.group # req.group
          /\ s.start_time < ParseTime(req.end_time)
          /\ ParseTime(req.start_time) < s.end_time
    /\ \E s \in schedules : ~s.is_active /\ s.teacher = req.teacher

\* The half-open intervals of rows a and b overlap.
RowsOverlap(a, b) == a.start_time < b.end_time /\ b.start_time < a.end_time

\* C3: under add_schedule and delete_schedule handled one at a time, no two active
\* Schedules of the same group on the same weekday overlap, and no two active
\* Schedules of the same teacher on the same weekday overlap.
C3_NoOverlappingSchedules ==
    \A a, b \in schedules :
        (a.id # b.id /\ a.is_active /\ b.is_active /\ a.weekday = b.weekday
            /\ (a.group = b.group \/ a.teacher = b.teacher))
        => ~RowsOverlap(a, b)

\* C3 witness: two active rows of one group, teacher and weekday are stored, and a
\* third candidate overlapping one of them has just been turned down.
C3_Witness ==
    /\ \E a, b \in schedules :
          /\ a.id # b.id /\ a.group = b.group /\ a.teacher = b.teacher
          /\ a.weekday = b.weekday /\ a.is_active /\ b.is_active
    /\ req.op = "add_schedule"
    /\ result \in {"GroupTimeConflict", "TeacherTimeConflict"}

\* The POST data of two handlers collide: same weekday, same group or same
\* teacher, overlapping half-open intervals.
CandidatesCollide(c, d) ==
    /\ c.weekday = d.weekday
    /\ (c.group = d.group \/ c.teacher = d.teacher)
    /\ ParseTime(c.start_time) < ParseTime(d.end_time)
    /\ ParseTime(d.start_time) < ParseTime(c.end_time)

\* C4: when two add_schedule requests with colliding candidates are handled
\* concurrently, in no interleaving are both candidates persisted.
C4_ConcurrentAddsAtomic ==
    \A p, q \in Procs :
        (p # q /\ cand[p].op = "Created" /\ cand[q].op = "Created")
        => ~CandidatesCollide(cand[p], cand[q])

\* C5: delete_schedule leaves every Lesson materialized from the Schedule, and
\* every Attendance row of those Lessons, in the store.
C5_DeleteScheduleKeepsLessons ==
    [][req'.op = "delete_schedule" =>
        (lessons \subseteq lessons' /\ attendance \subseteq attendance')]_vars

\* The descriptive fields of a Lesson.
Descriptive(l) ==
    <<l.subject, l.group, l.teacher, l.start_time, l.end_time, l.classroom>>

\* C6: once a Lesson has been materialized from a Schedule, no later operation
\* (an edit of the Schedule, saving the Lesson again) changes the Lesson's stored
\* subject, group, teacher, times or classroom.
C6_LessonSnapshotImmutable ==
    [][\A l \in lessons : \A m \in lessons' :
          (l.is_from_schedule /\ m.id = l.id) => Descriptive(m) = Descriptive(l)]_vars

\* Outcomes of the manual path of add_lesson that come before its duplicate query.
BeforeManualDuplicateCheck ==
    {"NoPermission", "MissingDate", "MissingFields", "NoGroupPermission"}

\* C7: a manual add_lesson is rejected as a duplicate exactly when an existing
\* Lesson has the same subject, group, date and start_time; with a different
\* start_time it is accepted and persisted.
C7_ManualDuplicateIffSameStart ==
    [][(req'.op = "add_lesson" /\ req'.lesson_type = "manual"
            /\ result' \notin BeforeManualDuplicateCheck) =>
        LET same == \E l \in lessons :
                        /\ l.subject = req'.subject /\ l.group = req'.group
                        /\ l.date = req'.date
                        /\ l.start_time = ParseOptTime(req'.start_time) IN
        /\ result' = "DuplicateLesson" <=> same
        /\ ~same => result' = "Created"]_vars

\* The request is a materialization from a Schedule, through either view.
IsMaterialize(r) ==
    \/ r.op = "create_lesson_from_schedule"
    \/ (r.op = "add_lesson" /\ r.lesson_type = "from_schedule")

\* Outcomes of a materialization that come before its duplicate query but after
\* the Schedule was found.
BeforeScheduleDuplicateCheck ==
    {"NoPermission", "NoGroupPermission", "MissingDate", "WeekdayMismatch"}

\* At most one Lesson references any (schedule, date) pair.
OneLessonPerScheduleDate ==
    \A l, m \in lessons :
        (l.schedule # NoId /\ l.schedule = m.schedule /\ l.date = m.date) => l.id = m.id

\* C8: materializing a (schedule, date) pair that already has a Lesson, through
\* either view, creates nothing and (once the caller and the weekday are accepted)
\* is rejected as a duplicate; at most one Lesson references any (schedule, date).
C8_NoSecondMaterialization ==
    /\ []OneLessonPerScheduleDate
    /\ [][(IsMaterialize(req')
             /\ \E l \in lessons : l.schedule = req'.schedule /\ l.date = req'.date) =>
            /\ lessons' = lessons /\ attendance' = attendance
            /\ result' \notin BeforeScheduleDuplicateCheck => result' = "DuplicateLesson"]_vars

\* C8 witness: a second materialization of a pair was just rejected as a
\* duplicate, the Schedule having Lessons on two dates.
C8_Witness ==
    /\ req.op = "create_lesson_from_schedule" /\ result = "DuplicateLesson"
    /\ \E l \in lessons : l.schedule = req.schedule /\ l.date = req.date
    /\ \E l, m \in lessons : l.schedule # NoId /\ l.schedule = m.schedule /\ l.id # m.id

\* Outcomes of a materialization that come before its weekday check but after
\* the Schedule was found.
BeforeWeekdayCheck == {"NoPermission", "NoGroupPermission", "MissingDate"}

\* C9: materializing from a Schedule for a date whose weekday differs from the
\* Schedule's weekday creates neither a Lesson nor an Attendance row and (once the
\* caller is accepted) is rejected with a weekday mismatch, through either view.
C9_WeekdayMismatchRejected ==
    [][(IsMaterialize(req') /\ req'.date # NoDate
          /\ \E s \in schedules :
                s.id = req'.schedule /\ (req'.date - 1) % 7 # s.weekday) =>
        /\ lessons' = lessons /\ attendance' = attendance
        /\ result' \notin BeforeWeekdayCheck => result' = "WeekdayMismatch"]_vars

\* C9 witness: add_lesson has just rejected a Tuesday date with a weekday mismatch
\* for a Schedule that already has a Lesson.
C9_Witness ==
    /\ req.op = "add_lesson" /\ req.lesson_type = "from_schedule"
    /\ result = "WeekdayMismatch"
    /\ \E s \in schedules : s.id = req.schedule /\ s.weekday # (req.date - 1) % 7
    /\ \E l \in lessons : l.schedule = req.schedule

RowsOf(T, id, s) == {a \in T : a.lesson = id /\ a.student = s}

\* C11: under lesson creation, edit_attendance and
\* create_missing_attendance_records there is at most one Attendance row per
\* (lesson, student) pair.
C11_OneRowPerLessonStudent ==
    \A a, b \in attendance : (a.lesson = b.lesson /\ a.student = b.student) => a = b

\* C11 witness: the missing rows have just been created while S3, moved to group
\* A, has a row for a Lesson of group A and another row carries a grade.
C11_Witness ==
    /\ req.op = "create_missing_attendance" /\ result = "Done"
    /\ studentGroup["S3"] = "A"
    /\ \E l \in lessons : l.group = "A" /\ RowsOf(attendance, l.id, "S3") # {}
    /\ \E a \in attendance : a.grade = 5

\* C12: every stored Attendance row has late false whenever attended is false,
\* and a grade that is null or in 2..5.
C12_AttendanceRowsValid ==
    \A a \in attendance :
        /\ ~a.attended => ~a.late
        /\ a.grade = NoGrade \/ a.grade \in 2..5

\* C12 witness: a POST with the late box checked and the attended box not has
\* just been stored, and another row holds a grade.
C12_Witness ==
    /\ req.op = "edit_attendance" /\ result = "Updated"
    /\ \E id \in DOMAIN req.post :
          /\ ~req.post[id].attended /\ req.post[id].late
          /\ RowsOf(attendance, id, req.student) # {}
    /\ \E a \in attendance : a.grade = 2

\* The row of lesson id and student s in table T is stored as absent, not late.
StoredAbsentNotLate(T, id, s) ==
    /\ RowsOf(T, id, s) # {}
    /\ \A a \in RowsOf(T, id, s) : ~a.attended /\ ~a.late

\* C13: an update of an existing row that supplies attended = false with
\* late = true is not rejected and is stored as (attended = false, late = false),
\* on edit_attendance and on the admin form alike.
C13_AbsentLateNormalized ==
    [][/\ (req'.op = "edit_attendance" /\ result' # "NoPermission")
            => \A id \in DOMAIN req'.post :
                  (RowsOf(attendance, id, req'.student) # {}
                      /\ ~req'.post[id].attended /\ req'.post[id].late)
                  => StoredAbsentNotLate(attendance', id, req'.student)
       /\ (req'.op = "admin_change_attendance" /\ result' # "NotFound"
              /\ ~req'.attended /\ req'.late)
            => /\ result' = "Saved"
               /\ StoredAbsentNotLate(attendance', req'.lesson, req'.student)]_vars

\* The grade text is a number outside 2..5.
GradeOutOfRange(g) == g # Empty /\ IsDigits(g) /\ (DigitsValue(g) < 2 \/ DigitsValue(g) > 5)

\* C14: an edit_attendance update with a grade outside 2..5 is rejected as
\* grade-out-of-range and leaves the row as it was; one with grade 2 or 5 is
\* accepted and the grade is stored.
C14_GradeOutOfRangeRejected ==
    [][(req'.op = "edit_attendance" /\ result' # "NoPermission")
         => \A id \in DOMAIN req'.post \cap LessonIdsOfGroup(lessons, studentGroup[req'.student]) :
               /\ GradeOutOfRange(req'.post[id].grade)
                    => /\ result' = "GradeOutOfRange"
                       /\ RowsOf(attendance', id, req'.student)
                            = RowsOf(attendance, id, req'.student)
               /\ req'.post[id].grade \in {g2, g5}
                    => \A a \in RowsOf(attendance', id, req'.student) :
                          a.grade = DigitsValue(req'.post[id].grade)]_vars

\* C15: marking one student attended = true with grade 5 for one Lesson stores
\* that state in that row and changes no other Attendance row.
C15_EditChangesOnlyTargetRow ==
    [][(/\ req'.op = "edit_attendance" /\ result' # "NoPermission"
        /\ \E id \in LessonIdsOfGroup(lessons, studentGroup[req'.student]) :
              req'.post = PostOnly(id, [attended |-> TRUE, late |-> FALSE, grade |-> g5]))
         => LET id == CHOOSE x \in DOMAIN req'.post : TRUE IN
            /\ RowsOf(attendance', id, req'.student)
                 = {[lesson |-> id, student |-> req'.student, attended |-> TRUE,
                     late |-> FALSE, grade |-> 5]}
            /\ \A a \in attendance \cup attendance' :
                  (a.lesson # id \/ a.student # req'.student)
                  => (a \in attendance /\ a \in attendance')]_vars

\* C16: create_missing_attendance_records creates rows only for (lesson, student)
\* pairs that have none, leaves every existing row as it is, and creates nothing
\* when run a second time immediately afterwards.
C16_ReconcilerOnlyAddsMissing ==
    [][(req'.op = "create_missing_attendance" /\ result' = "Done")
         => /\ attendance \subseteq attendance'
            /\ \A a \in attendance' \ attendance : RowsOf(attendance, a.lesson, a.student) = {}
            /\ (req.op = "create_missing_attendance" /\ result = "Done")
                 => attendance' = attendance]_vars

\* C16 witness: the missing rows have just been created, among them one for S3
\* in a Lesson of group A, next to a row that was edited before.
C16_Witness ==
    /\ req.op = "create_missing_attendance" /\ result = "Done"
    /\ \E l \in lessons :
          /\ l.group = "A"
          /\ RowsOf(attendance, l.id, "S3")
               = {[lesson |-> l.id, student |-> "S3", attended |-> FALSE,
                   late |-> FALSE, grade |-> NoGrade]}
          /\ \E a \in RowsOf(attendance, l.id, "S1") : a.attended

\* C17: after create_missing_attendance_records every Lesson has exactly one
\* Attendance row for every Student now in its group, also for students who
\* joined after the Lesson was created; the rows it created are absent, not
\* late, without a grade.
C17_ReconcilerCompletes ==
    [][(req'.op = "create_missing_attendance" /\ result' = "Done")
         => /\ \A l \in lessons' : \A s \in Students :
                  studentGroup'[s] = l.group
                  => Cardinality(RowsOf(attendance', l.id, s)) = 1
            /\ \A a \in attendance' \ attendance :
                  ~a.attended /\ ~a.late /\ a.grade = NoGrade]_vars

\* C17 witness: two Lessons of group A exist, S3 joined group A after both were
\* created, and after the run S3 has a row for each.
C17_Witness ==
    /\ req.op = "create_missing_attendance" /\ result = "Done"
    /\ studentGroup["S3"] = "A"
    /\ Cardinality({l \in lessons : l.group = "A"}) = 2
    /\ \A l \in lessons : l.group = "A" => RowsOf(attendance, l.id, "S3") # {}

\* C18: a Lesson materialized from a Schedule by either view has the Schedule's
\* subject, group, teacher, start_time and end_time as they are at creation,
\* is_from_schedule set, a reference to the Schedule, and the classroom typed
\* into the form if one was typed, the Schedule's classroom otherwise.
C18_MaterializedLessonCopiesSchedule ==
    [][((req'.op = "create_lesson_from_schedule"
            \/ (req'.op = "add_lesson" /\ req'.lesson_type = "from_schedule"))
          /\ result' = "Created" /\ lessons' # lessons)
         => \E s \in schedules : \E l \in lessons' \ lessons :
               /\ lessons' = lessons \cup {l}
               /\ s.id = req'.schedule /\ l.schedule = s.id /\ l.is_from_schedule
               /\ l.subject = s.subject /\ l.group = s.group /\ l.teacher = s.teacher
               /\ l.start_time = s.start_time /\ l.end_time = s.end_time
               /\ l.date = req'.date
               /\ l.classroom = IF req'.classroom # "" THEN req'.classroom
                                ELSE s.classroom]_vars

\* C18 witness: the Schedule was edited (teacher T1, 10:00-11:00) before a
\* Lesson was made from it with classroom 305 typed into the form, and another
\* Lesson of it took the Schedule's classroom.
C18_Witness ==
    /\ result = "Created" /\ req.op \in {"add_lesson", "create_lesson_from_schedule"}
    /\ \E l \in lessons : /\ l.id = nextLessonId - 1 /\ l.classroom = "305"
                          /\ l.teacher = "T1" /\ l.start_time = 600
    /\ \E l \in lessons : l.classroom = "101"

\* The add_schedule POST r passes every check of the view against the rows S
\* and its INSERT meets a row with the same (group, weekday, start_time).
ScheduleInsertCollides(S, r) ==
    /\ AddSchedulePreCheck(r.caller, r.group, r.subject, r.teacher, r.weekday,
                           r.start_time, r.end_time) = "ok"
    /\ AddScheduleGroupCheck(S, r.group, r.weekday, r.start_time, r.end_time) = "ok"
    /\ AddScheduleTeacherCheck(S, r.teacher, r.weekday, r.start_time, r.end_time) = "ok"
    /\ ScheduleUniqueViolated(S, NoId, r.group, r.weekday, ParseTime(r.start_time))

\* The schedule-path POST r of either view finds no Lesson of its (schedule,
\* date) pair and its INSERT meets a Lesson with the same (subject, date, group,
\* start_time).
LessonInsertCollides(S, L, r) ==
    /\ \E s \in S : s.id = r.schedule
    /\ ~ExistingScheduleLesson(L, r.schedule, r.date)
    /\ LessonUniqueViolated(L, LessonFromSchedule(NoId, CHOOSE s \in S : s.id = r.schedule,
                                                  r.date, r.classroom, r.notes))

\* C19: an insert that meets the uniqueness constraint of Schedule or of Lesson
\* after the view's own check let it through is reported as the group-time
\* conflict or the duplicate lesson the check would have reported, not as a
\* generic failure, and nothing is persisted.
C19_UniquenessViolationMapped ==
    [][/\ (req'.op = "add_schedule" /\ ScheduleInsertCollides(schedules, req'))
            => (result' = "GroupTimeConflict" /\ schedules' = schedules)
       /\ ((req'.op = "create_lesson_from_schedule"
              \/ (req'.op = "add_lesson" /\ req'.lesson_type = "from_schedule"))
           /\ result' \notin {"NoPermission", "NoGroupPermission", "MissingDate",
                              "MissingSchedule", "WeekdayMismatch", "NotFound"}
           /\ LessonInsertCollides(schedules, lessons, req'))
            => (result' = "DuplicateLesson" /\ lessons' = lessons
                  /\ attendance' = attendance)]_vars

\* The POSTs c and d of two add_lesson handlers are for the same slot.
SameSlot(c, d) ==
    /\ c.lesson_type = d.lesson_type /\ c.date = d.date
    /\ IF c.lesson_type = "from_schedule" THEN c.schedule = d.schedule
       ELSE c.subject = d.subject /\ c.group = d.group /\ c.start_time = d.start_time

\* The Lessons stored for the slot of the POST c.
SlotLessons(L, c) ==
    IF c.lesson_type = "from_schedule"
    THEN {l \in L : l.schedule = c.schedule /\ l.date = c.date}
    ELSE {l \in L : /\ ~l.is_from_schedule /\ l.subject = c.subject /\ l.group = c.group
                    /\ l.date = c.date /\ l.start_time = ParseOptTime(c.start_time)}

\* C20: when two add_lesson requests for the same slot are handled concurrently
\* and one of them has created its Lesson, the slot has exactly one Lesson and
\* every student of the group has exactly one Attendance row for it.
C20_ConcurrentLessonsOnePerSlot ==
    \A p, q \in Procs :
        (p # q /\ pc[p] = "done" /\ pc[q] = "done" /\ cand[p].op = "Created"
            /\ cand[q].op \in {"Created", "DuplicateLesson", "UnexpectedError"}
            /\ SameSlot(cand[p], cand[q]))
        => /\ Cardinality(SlotLessons(lessons, cand[p])) = 1
           /\ \A l \in SlotLessons(lessons, cand[p]) : \A s \in StudentsOf(l.group) :
                 Cardinality(RowsOf(attendance, l.id, s)) = 1

\* C21: under lesson-creation requests handled one at a time there is at most
\* one Lesson per (subject, date, group, start_time), two Lessons without a
\* start_time counting as having the same one.
C21_OneLessonPerSlot ==
    \A a, b \in lessons :
        (a.subject = b.subject /\ a.date = b.date /\ a.group = b.group
            /\ a.start_time = b.start_time) => a.id = b.id

\* C21 witness: a Lesson from the Schedule has just been turned down by the
\* uniqueness constraint, a manual Lesson holding its slot, while a manual
\* Lesson without a start_time is stored for the other date.
C21_Witness ==
    /\ req.op \in {"add_lesson", "create_lesson_from_schedule"}
    /\ result = "UnexpectedError"
    /\ \E l \in lessons : ~l.is_from_schedule /\ l.date = req.date /\ l.start_time = 540
    /\ \E l \in lessons : ~l.is_from_schedule /\ l.start_time = NoTime

\* The checks of add_schedule that the candidate r violates against the rows S,
\* by the times of day the texts stand for.
ViolatedChecks(S, r) ==
    {c \in {"InvalidTimeRange", "TeacherNotQualified", "TeacherNotAssignedToGroup",
            "GroupTimeConflict", "TeacherTimeConflict"} :
       \/ c = "InvalidTimeRange" /\ ParseTime(r.start_time) >= ParseTime(r.end_time)
       \/ c = "TeacherNotQualified" /\ r.subject \notin TeacherSubjects(r.teacher)
       \/ c = "TeacherNotAssignedToGroup" /\ ~WorksWithGroup(r.teacher, r.group)
       \/ c = "GroupTimeConflict"
            /\ \E s \in S : /\ s.is_active /\ s.group = r.group /\ s.weekday = r.weekday
                            /\ s.start_time < ParseTime(r.end_time)
                            /\ ParseTime(r.start_time) < s.end_time
       \/ c = "TeacherTimeConflict"
            /\ \E s \in S : /\ s.is_active /\ s.teacher = r.teacher /\ s.weekday = r.weekday
                            /\ s.start_time < ParseTime(r.end_time)
                            /\ ParseTime(r.start_time) < s.end_time}

\* The first of the violated checks V in the order of the claim.
FirstViolated(V) ==
    IF "InvalidTimeRange" \in V THEN "InvalidTimeRange"
    ELSE IF "TeacherNotQualified" \in V THEN "TeacherNotQualified"
    ELSE IF "TeacherNotAssignedToGroup" \in V THEN "TeacherNotAssignedToGroup"
    ELSE IF "GroupTimeConflict" \in V THEN "GroupTimeConflict"
    ELSE "TeacherTimeConflict"

\* The add_schedule POST r gets as far as the five checks.
ReachesChecks(r) ==
    /\ r.op = "add_schedule"
    /\ AddSchedulePreCheck(r.caller, r.group, r.subject, r.teacher, r.weekday,
                           r.start_time, r.end_time)
         \notin {"NoPermission", "MissingFields", "NotOwnSchedule"}

\* C22: a candidate of add_schedule that violates several of the checks time
\* range, teacher qualification, teacher-group assignment, group time conflict,
\* teacher time conflict is rejected with the reason of the first one violated.
C22_FirstViolatedCheckReported ==
    [][(ReachesChecks(req') /\ Cardinality(ViolatedChecks(schedules, req')) >= 2)
         => result' = FirstViolated(ViolatedChecks(schedules, req'))]_vars

\* C23: every Schedule persisted by add_schedule has start_time < end_time, a
\* subject of its teacher and a group of its teacher; a candidate violating one
\* of these is rejected and the stored Schedules stay as they are.
C23_PersistedScheduleValid ==
    [][ReachesChecks(req')
         => /\ \A s \in schedules' \ schedules :
                  /\ s.start_time < s.end_time
                  /\ s.subject \in TeacherSubjects(s.teacher)
                  /\ WorksWithGroup(s.teacher, s.group)
            /\ (ViolatedChecks(schedules, req')
                   \cap {"InvalidTimeRange", "TeacherNotQualified",
                         "TeacherNotAssignedToGroup"} # {})
                 => (result' # "Created" /\ schedules' = schedules)]_vars

\* C24: after a valid candidate has been persisted by add_schedule, a second
\* request with the identical group, subject, teacher, weekday, start_time and
\* end_time is rejected with a group or teacher time conflict and the stored
\* Schedules stay as they are.
C24_SecondIdenticalRejected ==
    [][(/\ req.op = "add_schedule" /\ result = "Created"
        /\ ParseTime(req.start_time) < ParseTime(req.end_time)
        /\ req'.op = "add_schedule"
        /\ <<req'.group, req'.subject, req'.teacher, req'.weekday, req'.start_time,
             req'.end_time>>
             = <<req.group, req.subject, req.teacher, req.weekday, req.start_time,
                 req.end_time>>)
         => /\ result' \in {"GroupTimeConflict", "TeacherTimeConflict"}
            /\ schedules' = schedules]_vars

\* C24 witness: the request just rejected with a group time conflict repeats, in
\* all six values, a stored Schedule.
C24_Witness ==
    /\ req.op = "add_schedule" /\ result = "GroupTimeConflict"
    /\ \E s \in schedules :
          /\ s.is_active /\ s.group = req.group /\ s.subject = req.subject
          /\ s.teacher = req.teacher /\ s.weekday = req.weekday
          /\ s.start_time = ParseTime(req.start_time)
          /\ s.end_time = ParseTime(req.end_time)

\* C25: manual lesson creation succeeds only if subject and group are supplied
\* and the calling teacher's main or additional groups contain the group; the
\* persisted Lesson has is_from_schedule false, no Schedule, the calling teacher,
\* and date, classroom, start_time, end_time and notes as supplied.
C25_ManualLessonAsSupplied ==
    [][(req'.op = "add_lesson" /\ req'.lesson_type = "manual" /\ lessons' # lessons)
         => /\ req'.subject # None /\ req'.group # None
            /\ HasTeacher(req'.caller)
            /\ WorksWithGroup(TeacherOf(req'.caller), req'.group)
            /\ \E l \in lessons' \ lessons :
                  /\ lessons' = lessons \cup {l}
                  /\ ~l.is_from_schedule /\ l.schedule = NoId
                  /\ l.teacher = TeacherOf(req'.caller)
                  /\ l.subject = req'.subject /\ l.group = req'.group
                  /\ l.date = req'.date /\ l.classroom = req'.classroom
                  /\ l.start_time = ParseOptTime(req'.start_time)
                  /\ l.end_time = ParseOptTime(req'.end_time)
                  /\ l.notes = req'.notes]_vars

\* C25 witness: T2 has just created a manual Lesson for the additional group A
\* with classroom, start_time and end_time filled in, after one for group B
\* with the three left empty.
C25_Witness ==
    /\ req.op = "add_lesson" /\ req.lesson_type = "manual" /\ result = "Created"
    /\ req.caller = "uT2" /\ req.group = "A"
    /\ \E l \in lessons : /\ l.group = "A" /\ l.classroom = "305" /\ l.start_time = 540
                          /\ l.end_time = 600 /\ l.notes = "homework"
    /\ \E l \in lessons : /\ l.group = "B" /\ l.classroom = "" /\ l.start_time = NoTime
                          /\ l.end_time = NoTime

\* C26: a Schedule is created by add_schedule only when the caller is a superuser
\* or a teacher creating it for themself, and deleted by delete_schedule only
\* when the caller is a superuser or the Schedule's own teacher; any other
\* caller leaves the set of Schedules unchanged.
C26_ScheduleWritePermissions ==
    [][/\ (req'.op = "add_schedule" /\ schedules' # schedules)
            => \/ IsSuperuser(req'.caller)
               \/ HasTeacher(req'.caller) /\ TeacherOf(req'.caller) = req'.teacher
       /\ (req'.op = "delete_schedule" /\ schedules' # schedules)
            => \A s \in schedules \ schedules' :
                  \/ IsSuperuser(req'.caller)
                  \/ HasTeacher(req'.caller) /\ TeacherOf(req'.caller) = s.teacher]_vars

\* C26 witness: teacher T1 has just deleted their own Schedule after having been
\* refused to touch the Schedule of T2, which is still stored.
C26_Witness ==
    /\ req.op = "delete_schedule" /\ req.caller = "uT1" /\ result = "Deleted"
    /\ \E s \in schedules : s.teacher = "T2"
    /\ \A s \in schedules : s.teacher # "T1"

\* A user holds at most one of the Student, Teacher and Parent profiles.
OneProfilePerUser == \A u \in NewUsers : Cardinality(profiles[u]) <= 1

\* C27: under role attachments, role detachments and profile saves no user holds
\* more than one of the Teacher, Student and Parent profiles, and an attempt to
\* create a second kind of profile for a user (by a role whose profile is kept,
\* or on the profile form) creates nothing.
C27_ProfilesExclusive ==
    /\ []OneProfilePerUser
    /\ [][/\ (req'.op = "admin_change_user"
                 /\ profiles[req'.user] \cap req'.roles # {})
              => profiles' = profiles
          /\ (req'.op = "admin_add_profile"
                 /\ profiles[req'.user] \ {req'.kind} # {})
              => (result' = "FormInvalid" /\ profiles' = profiles)
          /\ (req'.op = "admin_change_profile" /\ req'.to # req'.user
                 /\ profiles[req'.to] # {})
              => (result' # "Saved" /\ profiles' = profiles)]_vars

\* C27 witness: the student role has just been given to a user who keeps the
\* teacher role and the Teacher profile, and no Student profile was created.
C27_Witness ==
    /\ req.op = "admin_change_user" /\ req.user = "n1"
    /\ userRoles["n1"] = {"teacher", "student"}
    /\ profiles["n1"] = {"teacher"}
    /\ profiles["n2"] = {"parent"}

\* The caller is one of those the attendance of student s is open to.
MayEditAttendance(caller, s) ==
    \/ HasTeacher(caller) /\ WorksWithGroup(TeacherOf(caller), studentGroup[s])
    \/ HasParent(caller) /\ s \in ParentChildren(caller)
    \/ IsSuperuser(caller)
    \/ caller = StudentUser(s)

\* C28: an edit_attendance POST for student S changes or creates Attendance rows
\* only if the caller is a teacher of S's group, a parent of S, a superuser or
\* S's own user; and a superuser is always allowed, whatever other profile the
\* account holds.
C28_EditAttendanceAuthorization ==
    [][req'.op = "edit_attendance"
        => /\ attendance' # attendance => MayEditAttendance(req'.caller, req'.student)
           /\ IsSuperuser(req'.caller) => result' # "NoPermission"]_vars

\* C29: after an authorized edit_attendance POST for student S, S has exactly one
\* Attendance row for every Lesson of S's current group, holding the normalized
\* submitted values; a Lesson whose fields are absent from the submission is
\* stored as attended = false, late = false, grade = null.
C29_EditStoresSubmittedValues ==
    [][(req'.op = "edit_attendance" /\ result' # "NoPermission")
        => \A l \in lessons :
              l.group = studentGroup[req'.student]
              => RowsOf(attendance', l.id, req'.student) =
                    IF l.id \in DOMAIN req'.post
                    THEN {[lesson |-> l.id, student |-> req'.student,
                           attended |-> req'.post[l.id].attended,
                           late |-> req'.post[l.id].attended /\ req'.post[l.id].late,
                           grade |-> ParseGrade(req'.post[l.id].grade)]}
                    ELSE {[lesson |-> l.id, student |-> req'.student,
                           attended |-> FALSE, late |-> FALSE, grade |-> NoGrade]}]_vars

\* C29 witness: S3, moved to group A, has just been marked for one of the two
\* Lessons of group A; the row of that Lesson holds grade 5 and the row of the
\* other Lesson, absent from the POST, holds the defaults.
C29_Witness ==
    /\ req.op = "edit_attendance" /\ req.student = "S3" /\ result = "Updated"
    /\ studentGroup["S3"] = "A"
    /\ \E a, b \in lessons :
          /\ a.id # b.id /\ a.group = "A" /\ b.group = "A"
          /\ DOMAIN req.post = {a.id}
          /\ RowsOf(attendance, a.id, "S3") =
                {[lesson |-> a.id, student |-> "S3", attended |-> TRUE, late |-> FALSE,
                  grade |-> 5]}
          /\ RowsOf(attendance, b.id, "S3") =
                {[lesson |-> b.id, student |-> "S3", attended |-> FALSE, late |-> FALSE,
                  grade |-> NoGrade]}

\* C30: add_lesson with lesson_type from_schedule and create_lesson_from_schedule
\* are equivalent: for every caller, Schedule and date one creates a Lesson
\* exactly when the other does.
C30_EntryPointsEquivalent ==
    \A caller \in {"admin", "uT1", "uT2"}, sid \in ScheduleIds, date \in {1, 2, 8} :
        (AddLessonFromScheduleOutcome(schedules, lessons, caller, sid, date, "", "") = "Created")
        <=> (CreateLessonFromScheduleOutcome(schedules, lessons, caller, sid, date, "", "")
                = "Created")

====
